---- MODULE Spec2Model ----
(***************************************************************************)
(* Verification model of the CherryIN OAuth token lifecycle and the        *)
(* mini-app region filter of cherry-studio.                                *)
(*                                                                         *)
(*   SpecSvc   main process: CherryINOAuthService (token files, refresh on *)
(*             401, authenticated requests, logout)                        *)
(*   SpecFlow  renderer: oauthWithCherryIn (PKCE flow, pending-flow map)   *)
(*   SpecApps  renderer: useMinapps (region detection and filtering)       *)
(*                                                                         *)
(* Each specification moves only its own variables; the others keep their  *)
(* initial value.                                                          *)
(***************************************************************************)
EXTENDS Integers, Sequences, FiniteSets, TLC

VARIABLES tokenFile, refreshTokenFile, call, save, lo, expect, overlapped,
          pendingOAuthFlows, listeners, flow, now,
          enabled, disabled, pinned, minAppRegionSetting, detectedRegion,
          regionDetectionPromise, ipcCalls, hook,
          hook2, panel, tool

svcVars == <<tokenFile, refreshTokenFile, call, save, lo, expect, overlapped>>

flowVars == <<pendingOAuthFlows, listeners, flow, now>>

appVars == <<enabled, disabled, pinned, minAppRegionSetting, detectedRegion,
             regionDetectionPromise, ipcCalls, hook>>

uiVars == <<hook2, panel, tool>>

vars == <<svcVars, flowVars, appVars, uiVars>>

(***************************************************************************)
(* Values                                                                  *)
(***************************************************************************)
\* JS null / undefined
Null == "NULL"

\* a file that does not exist; an existing file is <<content>>
NoFile == <<>>

\* access tokens the authorization server issues, and the ones an IPC caller
\* may pass to saveToken (the empty string included)
AccessTokens == {"a1", "a2"}
IpcAccessTokens == {"", "a1"}

\* refresh tokens the server issues; saveToken's optional third argument
RefreshTokens == {"r1", "r2"}
IpcRefreshTokens == {Null, "", "r1"}

\* the three authenticated API methods
Methods == {"getBalance", "getUsage", "getUserInfo"}

\* the API calls that can be in flight at once
Slots == {"c1"}

\* JS truthiness of a string | null | undefined
Truthy(s) == s # Null /\ s # ""

\* HTTP status that triggers the refresh
Unauthorized == 401

\* Response.ok
ResponseOk(status) == status >= 200 /\ status <= 299

\* what the network can answer to an API request: a thrown fetch (NetErr) or a
\* response. The body of a 200 is valid with success true or false, JSON that
\* does not match the zod schema, or no JSON at all.
NetErr == [status |-> 0, body |-> "neterr"]
Bodies == {"success_true", "success_false", "bad_schema", "not_json"}
Responses ==
  {[status |-> 200, body |-> b] : b \in Bodies}
    \cup {[status |-> s, body |-> "error"] : s \in {Unauthorized, 500}}
NoResponse == [status |-> 0, body |-> "none"]

\* what /oauth2/token can answer to a refresh_token grant
TokenResponses ==
  {[ok |-> TRUE, json |-> TRUE, access |-> a, refresh |-> r] :
      a \in AccessTokens \cup {Null}, r \in RefreshTokens \cup {Null}}
    \cup {[ok |-> TRUE, json |-> FALSE, access |-> Null, refresh |-> Null],
          [ok |-> FALSE, json |-> FALSE, access |-> Null, refresh |-> Null]}
TokenNetErr == [ok |-> FALSE, json |-> FALSE, access |-> "neterr", refresh |-> Null]

(***************************************************************************)
(* safeStorage: the file holds the encrypted string, never the token       *)
(***************************************************************************)
encryptString(s) == <<"v10", s>>

decryptOk(blob) == Len(blob) = 2 /\ blob[1] = "v10"

decryptString(blob) == blob[2]

\* a file whose content safeStorage cannot decrypt
CorruptBlob == <<"garbage">>

getToken_NoDecrypt ==
  IF tokenFile = NoFile THEN Null ELSE "v10"

\* getToken: null when the file is missing or unreadable
getToken ==
  IF tokenFile = NoFile THEN Null
  ELSE IF decryptOk(tokenFile[1]) THEN decryptString(tokenFile[1])
  ELSE Null

getRefreshToken ==
  IF refreshTokenFile = NoFile THEN Null
  ELSE IF decryptOk(refreshTokenFile[1]) THEN decryptString(refreshTokenFile[1])
  ELSE Null

hasToken == tokenFile # NoFile

(***************************************************************************)
(* Errors                                                                  *)
(***************************************************************************)
ServiceError == "CherryINOAuthServiceError"

NoError == [name |-> "none", message |-> "", cause |-> "none"]

FailMessage(m) ==
  IF m = "getBalance" THEN "Failed to get balance"
  ELSE IF m = "getUsage" THEN "Failed to get usage"
  ELSE "Failed to get user info"

\* the errors thrown inside the try block of a method
ErrNoToken == [name |-> ServiceError, message |-> "No OAuth token found"]
ErrHttp == [name |-> "Error", message |-> "HTTP status"]
ErrNetwork == [name |-> "TypeError", message |-> "fetch failed"]
ErrSyntax == [name |-> "SyntaxError", message |-> "Unexpected token"]
ErrZod == [name |-> "ZodError", message |-> "invalid"]
ErrApi == [name |-> ServiceError, message |-> "API returned success: false"]

Wrap_Rethrow(m, inner) ==
  [name |-> inner.name, message |-> inner.message, cause |-> "none"]

\* the catch block of getBalance / getUsage / getUserInfo
Wrap(m, inner) ==
  IF inner.name = "ZodError"
  THEN [name |-> ServiceError, message |-> "Invalid response format from server",
        cause |-> inner.message]
  ELSE [name |-> ServiceError, message |-> FailMessage(m), cause |-> inner.message]

(***************************************************************************)
(* Calls in flight                                                         *)
(***************************************************************************)
\* a call: its position, the method, the locals of authenticatedFetch and
\* refreshAccessToken (token, rtok, newA, newR, ret = what refreshAccessToken
\* returned), and what it did: requests sent, refreshes started, the token the
\* retry carried, the first and the final response, the error thrown, and
\* kept = the refresh token its refresh sent when the answer brought a new
\* access token and no refresh token
IdleCall ==
  [pc |-> "idle", method |-> "getBalance", token |-> Null, rtok |-> Null,
   newA |-> Null, newR |-> Null, ret |-> Null, nReq |-> 0, nRefresh |-> 0,
   tok2 |-> Null, first |-> NoResponse, last |-> NoResponse, err |-> NoError,
   kept |-> Null]

IdleSave == [pc |-> "idle", access |-> Null, refresh |-> Null]

IdleLogout == [pc |-> "idle", revoke |-> "none"]

Finished == {"idle", "returned", "threw"}

\* expect: what the completed, non-overlapping saveToken / logout calls left as
\* the stored access token (Unknown after an overlap or an I/O failure)
Unknown == "UNKNOWN"

Writers == {"save", "logout"} \cup DOMAIN call

\* w is inside saveToken or logout
Busy(w) ==
  IF w = "save" THEN save.pc \in {"w1", "w2"}
  ELSE IF w = "logout" THEN lo.pc \in {"rev", "u1", "u2"}
  ELSE call[w].pc \in {"w1", "w2"}

OthersBusy(w) == \E x \in Writers \ {w} : Busy(x)

Quiescent == \A w \in Writers : ~Busy(w)

Begin(w) == overlapped' = OthersBusy(w)

End(w, value, ok) ==
  /\ expect' = IF overlapped \/ ~ok THEN Unknown ELSE value
  /\ overlapped' = OthersBusy(w)

TypeOK ==
  /\ tokenFile \in {NoFile, <<CorruptBlob>>}
        \cup {<<encryptString(t)>> : t \in AccessTokens \cup IpcAccessTokens}
  /\ refreshTokenFile \in {NoFile} \cup {<<encryptString(t)>> : t \in RefreshTokens \cup IpcRefreshTokens}
  /\ \A s \in DOMAIN call :
       /\ call[s].pc \in Finished \cup {"req1", "rt", "rfetch", "w1", "w2", "req2"}
       /\ call[s].method \in Methods
  /\ save.pc \in Finished \cup {"w1", "w2"}
  /\ lo.pc \in Finished \cup {"rev", "u1", "u2"}
  /\ overlapped \in BOOLEAN

SvcInit ==
  /\ tokenFile \in {NoFile, <<CorruptBlob>>}
  /\ refreshTokenFile = NoFile
  /\ call = [s \in Slots |-> IdleCall]
  /\ save = IdleSave
  /\ lo = IdleLogout
  /\ expect = IF tokenFile = NoFile THEN Null ELSE Unknown
  /\ overlapped = FALSE

(***************************************************************************)
(* getBalance / getUsage / getUserInfo over authenticatedFetch             *)
(***************************************************************************)
\* the locals are dropped when the call ends
Ended(c, pc) ==
  [c EXCEPT !.pc = pc, !.rtok = Null, !.newA = Null, !.newR = Null, !.kept = Null]

Throw(c, inner) == [Ended(c, "threw") EXCEPT !.err = Wrap(c.method, inner)]

\* what the method does with the response authenticatedFetch returned (or the
\* error fetch threw): return a value, or throw from its catch block
Settle(c, resp) ==
  LET d == [c EXCEPT !.last = resp] IN
  IF resp = NetErr THEN Throw(d, ErrNetwork)
  ELSE IF ~ResponseOk(resp.status) THEN Throw(d, ErrHttp)
  ELSE IF resp.body = "not_json" THEN Throw(d, ErrSyntax)
  ELSE IF resp.body = "bad_schema" THEN Throw(d, ErrZod)
  ELSE IF resp.body = "success_false" THEN Throw(d, ErrApi)
  ELSE Ended(d, "returned")

HasStoredToken_Always(token) == TRUE

\* authenticatedFetch: if (!token) throw
HasStoredToken(token) == Truthy(token)

\* authenticatedFetch: if (response.status === 401)
ShouldRefresh(resp) == resp.status = Unauthorized

RetryToken_Old(c) == c.token

\* authenticatedFetch: makeRequest(newToken)
RetryToken(c) == c.ret

AfterRetry_Loop(c, resp) ==
  IF ShouldRefresh(resp)
  THEN [c EXCEPT !.pc = "rt", !.nRefresh = @ + 1, !.last = resp]
  ELSE Settle(c, resp)

\* authenticatedFetch: the second response is returned as it is
AfterRetry(c, resp) == Settle(c, resp)

WritesRefresh_Always(refreshToken) == TRUE

\* saveToken: if (refreshToken) write the refresh-token file
WritesRefresh(refreshToken) == Truthy(refreshToken)

\* refreshAccessToken returned null: authenticatedFetch returns the 401
RefreshFailed(c) == Settle([c EXCEPT !.ret = Null], c.first)

CallVars(s, c) == call' = [call EXCEPT ![s] = c]

\* a method is called: authenticatedFetch reads the stored token
Call(s, m) ==
  /\ call[s].pc \in Finished
  /\ LET token == getToken
         c == [IdleCall EXCEPT !.method = m, !.token = token] IN
       CallVars(s, IF HasStoredToken(token)
                   THEN [c EXCEPT !.pc = "req1"]
                   ELSE Throw(c, ErrNoToken))
  /\ UNCHANGED <<tokenFile, refreshTokenFile, save, lo, expect, overlapped>>

\* the first request is answered
Request1(s, resp) ==
  /\ call[s].pc = "req1"
  /\ LET c == [call[s] EXCEPT !.nReq = @ + 1, !.first = resp] IN
       CallVars(s, IF ShouldRefresh(resp)
                   THEN [c EXCEPT !.pc = "rt", !.nRefresh = @ + 1, !.last = resp]
                   ELSE Settle(c, resp))
  /\ UNCHANGED <<tokenFile, refreshTokenFile, save, lo, expect, overlapped>>

\* refreshAccessToken reads the refresh token
RefreshRead(s) ==
  /\ call[s].pc = "rt"
  /\ LET rt == getRefreshToken IN
       CallVars(s, IF Truthy(rt)
                   THEN [call[s] EXCEPT !.pc = "rfetch", !.rtok = rt]
                   ELSE RefreshFailed(call[s]))
  /\ UNCHANGED <<tokenFile, refreshTokenFile, save, lo, expect, overlapped>>

\* /oauth2/token answers the refresh_token grant
RefreshFetch(s, tr) ==
  /\ call[s].pc = "rfetch"
  /\ IF tr.ok /\ tr.json /\ Truthy(tr.access)
     THEN /\ CallVars(s, [call[s] EXCEPT !.pc = "w1", !.rtok = Null,
                                         !.newA = tr.access, !.newR = tr.refresh,
                                         !.kept = IF Truthy(tr.refresh) THEN Null
                                                  ELSE call[s].rtok])
          /\ Begin(s)
     ELSE /\ CallVars(s, RefreshFailed(call[s]))
          /\ UNCHANGED overlapped
  /\ UNCHANGED <<tokenFile, refreshTokenFile, save, lo, expect>>

\* saveToken inside refreshAccessToken: the access-token file is written
RefreshSaveAccess(s, ok) ==
  /\ call[s].pc = "w1"
  /\ IF ~ok
     THEN /\ CallVars(s, RefreshFailed(call[s]))
          /\ End(s, Null, FALSE)
          /\ UNCHANGED tokenFile
     ELSE /\ tokenFile' = <<encryptString(call[s].newA)>>
          /\ IF WritesRefresh(call[s].newR)
             THEN /\ CallVars(s, [call[s] EXCEPT !.pc = "w2"])
                  /\ UNCHANGED <<expect, overlapped>>
             ELSE /\ CallVars(s, [call[s] EXCEPT !.pc = "req2", !.ret = call[s].newA,
                                                 !.newA = Null, !.newR = Null])
                  /\ End(s, call[s].newA, TRUE)
  /\ UNCHANGED <<refreshTokenFile, save, lo>>

\* saveToken inside refreshAccessToken: the refresh-token file is written
RefreshSaveRefresh(s, ok) ==
  /\ call[s].pc = "w2"
  /\ IF ~ok
     THEN /\ CallVars(s, RefreshFailed(call[s]))
          /\ UNCHANGED refreshTokenFile
     ELSE /\ refreshTokenFile' = <<encryptString(call[s].newR)>>
          /\ CallVars(s, [call[s] EXCEPT !.pc = "req2", !.ret = call[s].newA,
                                         !.newA = Null, !.newR = Null])
  /\ End(s, call[s].newA, ok)
  /\ UNCHANGED <<tokenFile, save, lo>>

\* the retried request is answered
Request2(s, resp) ==
  /\ call[s].pc = "req2"
  /\ LET c == [call[s] EXCEPT !.nReq = @ + 1, !.tok2 = RetryToken(call[s])] IN
       CallVars(s, AfterRetry(c, resp))
  /\ UNCHANGED <<tokenFile, refreshTokenFile, save, lo, expect, overlapped>>

(***************************************************************************)
(* saveToken called over IPC (by the renderer after a login)               *)
(***************************************************************************)
SaveCall(a, r) ==
  /\ save.pc \in Finished
  /\ save' = [pc |-> "w1", access |-> a, refresh |-> r]
  /\ Begin("save")
  /\ UNCHANGED <<tokenFile, refreshTokenFile, call, lo, expect>>

SaveAccess(ok) ==
  /\ save.pc = "w1"
  /\ IF ~ok
     THEN /\ save' = [IdleSave EXCEPT !.pc = "threw"]
          /\ End("save", Null, FALSE)
          /\ UNCHANGED tokenFile
     ELSE /\ tokenFile' = <<encryptString(save.access)>>
          /\ IF WritesRefresh(save.refresh)
             THEN /\ save' = [save EXCEPT !.pc = "w2"]
                  /\ UNCHANGED <<expect, overlapped>>
             ELSE /\ save' = [IdleSave EXCEPT !.pc = "returned"]
                  /\ End("save", save.access, TRUE)
  /\ UNCHANGED <<refreshTokenFile, call, lo>>

SaveRefresh(ok) ==
  /\ save.pc = "w2"
  /\ IF ~ok
     THEN /\ save' = [IdleSave EXCEPT !.pc = "threw"]
          /\ UNCHANGED refreshTokenFile
     ELSE /\ refreshTokenFile' = <<encryptString(save.refresh)>>
          /\ save' = [IdleSave EXCEPT !.pc = "returned"]
  /\ End("save", save.access, ok)
  /\ UNCHANGED <<tokenFile, call, lo>>

(***************************************************************************)
(* logout                                                                  *)
(***************************************************************************)
RevokeOutcomes == {"ok", "error_status", "threw"}

RevokeSwallowed_Not(outcome) == outcome # "threw"

\* the inner try/catch around the POST to /oauth2/revoke; an error status is
\* not looked at
RevokeSwallowed(outcome) == TRUE

UnlinksRefresh_Never(exists) == FALSE

\* if (fs.existsSync(refreshTokenFilePath)) unlink
UnlinksRefresh(exists) == exists

\* logout is called and reads the token
LogoutCall ==
  /\ lo.pc \in Finished
  /\ lo' = IF Truthy(getToken)
           THEN [pc |-> "rev", revoke |-> "none"]
           ELSE [pc |-> "u1", revoke |-> "skipped"]
  /\ Begin("logout")
  /\ UNCHANGED <<tokenFile, refreshTokenFile, call, save, expect>>

\* the revocation request ends
LogoutRevoke(outcome) ==
  /\ lo.pc = "rev"
  /\ IF RevokeSwallowed(outcome)
     THEN /\ lo' = [lo EXCEPT !.pc = "u1", !.revoke = outcome]
          /\ UNCHANGED <<expect, overlapped>>
     ELSE /\ lo' = [lo EXCEPT !.pc = "threw", !.revoke = outcome]
          /\ End("logout", Null, FALSE)
  /\ UNCHANGED <<tokenFile, refreshTokenFile, call, save>>

\* the access-token file is unlinked if it exists
LogoutUnlinkAccess(ok) ==
  /\ lo.pc = "u1"
  /\ IF tokenFile # NoFile
     THEN IF ok
          THEN /\ tokenFile' = NoFile
               /\ lo' = [lo EXCEPT !.pc = "u2"]
               /\ UNCHANGED <<expect, overlapped>>
          ELSE /\ lo' = [lo EXCEPT !.pc = "threw"]
               /\ End("logout", Null, FALSE)
               /\ UNCHANGED tokenFile
     ELSE /\ ok
          /\ lo' = [lo EXCEPT !.pc = "u2"]
          /\ UNCHANGED <<tokenFile, expect, overlapped>>
  /\ UNCHANGED <<refreshTokenFile, call, save>>

\* the refresh-token file is unlinked if it exists
LogoutUnlinkRefresh(ok) ==
  /\ lo.pc = "u2"
  /\ IF UnlinksRefresh(refreshTokenFile # NoFile)
     THEN IF ok
          THEN /\ refreshTokenFile' = NoFile
               /\ lo' = [lo EXCEPT !.pc = "returned"]
          ELSE /\ lo' = [lo EXCEPT !.pc = "threw"]
               /\ UNCHANGED refreshTokenFile
     ELSE /\ ok
          /\ lo' = [lo EXCEPT !.pc = "returned"]
          /\ UNCHANGED refreshTokenFile
  /\ End("logout", Null, ok)
  /\ UNCHANGED <<tokenFile, call, save>>

NextSvc ==
  \/ \E s \in DOMAIN call, m \in Methods : Call(s, m) /\ UNCHANGED <<flowVars, appVars, uiVars>>
  \/ \E s \in DOMAIN call, resp \in Responses \cup {NetErr} : Request1(s, resp) /\ UNCHANGED <<flowVars, appVars, uiVars>>
  \/ \E s \in DOMAIN call : RefreshRead(s) /\ UNCHANGED <<flowVars, appVars, uiVars>>
  \/ \E s \in DOMAIN call, tr \in TokenResponses \cup {TokenNetErr} : RefreshFetch(s, tr) /\ UNCHANGED <<flowVars, appVars, uiVars>>
  \/ \E s \in DOMAIN call, ok \in BOOLEAN : RefreshSaveAccess(s, ok) /\ UNCHANGED <<flowVars, appVars, uiVars>>
  \/ \E s \in DOMAIN call, ok \in BOOLEAN : RefreshSaveRefresh(s, ok) /\ UNCHANGED <<flowVars, appVars, uiVars>>
  \/ \E s \in DOMAIN call, resp \in Responses \cup {NetErr} : Request2(s, resp) /\ UNCHANGED <<flowVars, appVars, uiVars>>
  \/ \E a \in IpcAccessTokens, r \in IpcRefreshTokens : SaveCall(a, r) /\ UNCHANGED <<flowVars, appVars, uiVars>>
  \/ \E ok \in BOOLEAN : SaveAccess(ok) /\ UNCHANGED <<flowVars, appVars, uiVars>>
  \/ \E ok \in BOOLEAN : SaveRefresh(ok) /\ UNCHANGED <<flowVars, appVars, uiVars>>
  \/ LogoutCall /\ UNCHANGED <<flowVars, appVars, uiVars>>
  \/ \E o \in RevokeOutcomes : LogoutRevoke(o) /\ UNCHANGED <<flowVars, appVars, uiVars>>
  \/ \E ok \in BOOLEAN : LogoutUnlinkAccess(ok) /\ UNCHANGED <<flowVars, appVars, uiVars>>
  \/ \E ok \in BOOLEAN : LogoutUnlinkRefresh(ok) /\ UNCHANGED <<flowVars, appVars, uiVars>>

(***************************************************************************)
(* oauthWithCherryIn (renderer)                                            *)
(***************************************************************************)
\* number of oauthWithCherryIn calls (login clicks)
MaxFlows == 2

\* the clock advances TickMs at a time, MaxTicks times
MaxTicks == 2
TickMs == 600000

\* 10 * 60 * 1000
FlowTimeoutMs == 600000

Flows == 1 .. MaxFlows

NowMs == now * TickMs

\* generateRandomString(32) and generateRandomString(64): fresh for every call
StateOf(f) == "state" \o ToString(f)
VerifierOf(f) == "verifier" \o ToString(f)

\* what the protocol handler can deliver: a URL that is not the OAuth callback,
\* or a callback with an error, without a code, or with a code; the state
\* parameter is missing, never registered, or the state of some call
CallbackStates == {Null, "unknown"} \cup {StateOf(f) : f \in Flows}

Messages ==
  {[callback |-> FALSE, code |-> Null, state |-> Null, error |-> Null]}
    \cup {[callback |-> TRUE, code |-> Null, state |-> x, error |-> "access_denied"] :
            x \in CallbackStates}
    \cup {[callback |-> TRUE, code |-> c, state |-> x, error |-> Null] :
            c \in {Null, "code"}, x \in CallbackStates}

\* dup: a callback with a code and the state of the call came again after
\* the exchange had started
IdleFlow ==
  [pc |-> "idle", state |-> Null, timer |-> FALSE, deadline |-> 0,
   promise |-> "none", result |-> Null,
   nExch |-> 0, exch |-> [state |-> Null, verifier |-> Null, wasPending |-> FALSE],
   by |-> "none", nSetKey |-> 0, key |-> Null, dup |-> FALSE]

Range(q) == {q[i] : i \in 1 .. Len(q)}

Without(q, x) == SelectSeq(q, LAMBDA y : y # x)

\* Map.delete
MapDelete(map, k) == [x \in DOMAIN map \ {k} |-> map[x]]

\* Map.set
MapSet(map, k, v) == [x \in DOMAIN map \cup {k} |-> IF x = k THEN v ELSE map[x]]

\* the renderer state a handler works on
Renderer == [pending |-> pendingOAuthFlows, listeners |-> listeners, flow |-> flow]

\* resolve / reject settle the promise once
Resolve(st, f, value) ==
  IF st.flow[f].promise = "pending"
  THEN [st EXCEPT !.flow[f].promise = "resolved", !.flow[f].result = value]
  ELSE st

Reject(st, f, reason) ==
  IF st.flow[f].promise = "pending"
  THEN [st EXCEPT !.flow[f].promise = "rejected", !.flow[f].result = reason]
  ELSE st

cleanup_KeepsEntry(st, f) ==
  [st EXCEPT !.listeners = Without(@, f), !.flow[f].timer = FALSE,
             !.flow[f].deadline = 0]

\* cleanup(): removeListener, clearTimeout, pendingOAuthFlows.delete(state)
cleanup(st, f) ==
  [st EXCEPT !.listeners = Without(@, f),
             !.flow[f].timer = FALSE,
             !.flow[f].deadline = 0,
             !.pending = MapDelete(@, st.flow[f].state)]

\* cleanupExpiredFlows
cleanupExpiredFlows(map) ==
  [x \in {k \in DOMAIN map : ~(NowMs - map[k].timestamp > FlowTimeoutMs)} |-> map[x]]

\* whose callback the listener acted on: one carrying the state of its own
\* call, or any other (a missing state included)
Origin(st, f, msg) == IF msg.state = st.flow[f].state THEN "own" ELSE "foreign"

IsOwnState_Any(st, f, returnedState) == TRUE

\* if (returnedState !== state) return
IsOwnState(st, f, returnedState) == returnedState = st.flow[f].state

TakeFlow_Keep(map, returnedState) == map

\* pendingOAuthFlows.delete(returnedState), before the token request
TakeFlow(map, returnedState) == MapDelete(map, returnedState)

\* the listener of call f receives a protocol URL: everything up to the first
\* await (the token request being sent)
OnReceiveData(st, f, msg) ==
  IF ~msg.callback THEN st
  ELSE IF Truthy(msg.error)
  THEN cleanup(Reject([st EXCEPT !.flow[f].by = Origin(st, f, msg)], f, "OAuth error"), f)
  ELSE IF ~Truthy(msg.code)
  THEN cleanup(Reject([st EXCEPT !.flow[f].by = Origin(st, f, msg)], f,
                      "No authorization code received"), f)
  ELSE IF ~Truthy(msg.state) \/ msg.state \notin DOMAIN st.pending
  THEN [st EXCEPT !.flow[f].dup = @ \/ (msg.state = st.flow[f].state /\ st.flow[f].nExch > 0)]
  ELSE IF ~IsOwnState(st, f, msg.state) THEN st
  ELSE LET flowData == st.pending[msg.state] IN
       [st EXCEPT !.pending = TakeFlow(@, msg.state),
                  !.flow[f].pc = "exchange",
                  !.flow[f].by = Origin(st, f, msg),
                  !.flow[f].nExch = @ + 1,
                  !.flow[f].exch = [state |-> msg.state,
                                    verifier |-> flowData.codeVerifier,
                                    wasPending |-> msg.state \in DOMAIN st.pending]]

\* the listeners registered at the time of the event are called in order
RECURSIVE Emit(_, _, _)
Emit(st, q, msg) ==
  IF q = <<>> THEN st
  ELSE Emit(OnReceiveData(st, Head(q), msg), Tail(q), msg)

SetRenderer(st) ==
  /\ pendingOAuthFlows' = st.pending
  /\ listeners' = st.listeners
  /\ flow' = st.flow

\* oauthWithCherryIn is called
FlowCall(f) ==
  /\ flow[f].pc = "idle"
  /\ \A g \in Flows : g < f => flow[g].pc # "idle"
  /\ pendingOAuthFlows' = cleanupExpiredFlows(pendingOAuthFlows)
  /\ flow' = [flow EXCEPT ![f].pc = "challenge"]
  /\ UNCHANGED <<listeners, now>>

\* after the code challenge is computed: the flow is stored, the popup opened,
\* the listener registered and the timer started
FlowRegister(f) ==
  /\ flow[f].pc = "challenge"
  /\ pendingOAuthFlows' =
       MapSet(pendingOAuthFlows, StateOf(f),
              [codeVerifier |-> VerifierOf(f), timestamp |-> NowMs])
  /\ listeners' = Append(listeners, f)
  /\ flow' = [flow EXCEPT ![f].pc = "waiting", ![f].state = StateOf(f),
                          ![f].timer = TRUE, ![f].deadline = NowMs + FlowTimeoutMs,
                          ![f].promise = "pending"]
  /\ UNCHANGED now

\* a protocol URL arrives
Deliver(msg) ==
  /\ listeners # <<>>
  /\ SetRenderer(Emit(Renderer, listeners, msg))
  /\ UNCHANGED now

\* the token endpoint answers the code exchange
ExchangeResponse(f, r) ==
  /\ flow[f].pc = "exchange"
  /\ LET st == [Renderer EXCEPT !.flow[f].pc = IF r = "ok" THEN "save" ELSE "ended"] IN
       SetRenderer(
         IF r = "ok" THEN st
         ELSE IF r = "no_access_token"
         THEN cleanup(Reject(st, f, "No access token received"), f)
         ELSE cleanup(Reject(st, f, "Failed to exchange code for token"), f))
  /\ UNCHANGED now

\* window.api.cherryin.saveToken settles; a failure is logged and ignored
FlowSaveToken(f, ok) ==
  /\ flow[f].pc = "save"
  /\ flow' = [flow EXCEPT ![f].pc = "apikeys"]
  /\ UNCHANGED <<pendingOAuthFlows, listeners, now>>

\* /api/v1/oauth/tokens answers
ApiKeysResponse(f, r) ==
  /\ flow[f].pc = "apikeys"
  /\ LET st == [Renderer EXCEPT !.flow[f].pc = "ended"] IN
       SetRenderer(
         IF r = "keys"
         THEN cleanup(Resolve([st EXCEPT !.flow[f].nSetKey = @ + 1,
                                         !.flow[f].key = "key1,key2"],
                              f, "key1,key2"), f)
         ELSE IF r = "no_keys"
         THEN cleanup(Reject(st, f, "No API keys received"), f)
         ELSE cleanup(Reject(st, f, "Failed to fetch API keys"), f))
  /\ UNCHANGED now

OnTimeout_NoReject(st, f) == cleanup(st, f)

\* the setTimeout callback: cleanup(), then reject
OnTimeout(st, f) == Reject(cleanup(st, f), f, "OAuth flow timed out")

\* the 10-minute timer fires
FlowTimeout(f) ==
  /\ flow[f].timer
  /\ NowMs >= flow[f].deadline
  /\ SetRenderer(OnTimeout(Renderer, f))
  /\ UNCHANGED now

Tick ==
  /\ now < MaxTicks
  /\ now' = now + 1
  /\ UNCHANGED <<pendingOAuthFlows, listeners, flow>>

ExchangeResults == {"ok", "no_access_token", "not_ok", "neterr"}

ApiKeysResults == {"keys", "no_keys", "not_ok", "bad_format", "neterr"}

NextFlow ==
  \/ \E f \in Flows : FlowCall(f) /\ UNCHANGED <<svcVars, appVars, uiVars>>
  \/ \E f \in Flows : FlowRegister(f) /\ UNCHANGED <<svcVars, appVars, uiVars>>
  \/ \E msg \in Messages : Deliver(msg) /\ UNCHANGED <<svcVars, appVars, uiVars>>
  \/ \E f \in Flows, r \in ExchangeResults : ExchangeResponse(f, r) /\ UNCHANGED <<svcVars, appVars, uiVars>>
  \/ \E f \in Flows, ok \in BOOLEAN : FlowSaveToken(f, ok) /\ UNCHANGED <<svcVars, appVars, uiVars>>
  \/ \E f \in Flows, r \in ApiKeysResults : ApiKeysResponse(f, r) /\ UNCHANGED <<svcVars, appVars, uiVars>>
  \/ \E f \in Flows : FlowTimeout(f) /\ UNCHANGED <<svcVars, appVars, uiVars>>
  \/ Tick /\ UNCHANGED <<svcVars, appVars, uiVars>>

\* the same steps with the clock capped: a call registers its flow only while
\* the clock can still reach the flow's deadline
NextFlowLive ==
  \/ \E f \in Flows : FlowCall(f) /\ UNCHANGED <<svcVars, appVars, uiVars>>
  \/ \E f \in Flows : now < MaxTicks /\ FlowRegister(f) /\ UNCHANGED <<svcVars, appVars, uiVars>>
  \/ \E msg \in Messages : Deliver(msg) /\ UNCHANGED <<svcVars, appVars, uiVars>>
  \/ \E f \in Flows, r \in ExchangeResults : ExchangeResponse(f, r) /\ UNCHANGED <<svcVars, appVars, uiVars>>
  \/ \E f \in Flows, ok \in BOOLEAN : FlowSaveToken(f, ok) /\ UNCHANGED <<svcVars, appVars, uiVars>>
  \/ \E f \in Flows, r \in ApiKeysResults : ApiKeysResponse(f, r) /\ UNCHANGED <<svcVars, appVars, uiVars>>
  \/ \E f \in Flows : FlowTimeout(f) /\ UNCHANGED <<svcVars, appVars, uiVars>>
  \/ Tick /\ UNCHANGED <<svcVars, appVars, uiVars>>

\* time passes, a timer that is due fires, and every request sent is answered
FlowFairness ==
  /\ WF_vars(Tick /\ UNCHANGED <<svcVars, appVars, uiVars>>)
  /\ \A f \in Flows :
       /\ WF_vars(FlowTimeout(f) /\ UNCHANGED <<svcVars, appVars, uiVars>>)
       /\ WF_vars((\E r \in ExchangeResults : ExchangeResponse(f, r))
                    /\ UNCHANGED <<svcVars, appVars, uiVars>>)
       /\ WF_vars((\E ok \in BOOLEAN : FlowSaveToken(f, ok))
                    /\ UNCHANGED <<svcVars, appVars, uiVars>>)
       /\ WF_vars((\E r \in ApiKeysResults : ApiKeysResponse(f, r))
                    /\ UNCHANGED <<svcVars, appVars, uiVars>>)

FlowInit ==
  /\ pendingOAuthFlows = <<>>
  /\ listeners = <<>>
  /\ flow = [f \in Flows |-> IdleFlow]
  /\ now = 0

(***************************************************************************)
(* useMinapps (renderer): region detection and region filtering            *)
(***************************************************************************)
\* longest list a caller passes to an update function
MaxListLen == 2

\* hook instances mounted at once
NumHooks == 3

Hooks == 1 .. NumHooks

Regions == {"CN", "Global"}

\* an app: its id and its supportedRegions field, which may be missing
App(id, defined, regions) ==
  [id |-> id, defined |-> defined, supportedRegions |-> regions]

\* the template list: one app shown everywhere, one without supportedRegions
allMinApps ==
  <<App("a", TRUE, <<"CN", "Global">>), App("b", FALSE, <<>>)>>

\* stored apps that the template list no longer has, and a stored copy of a
\* template app written before supportedRegions existed
OrphanApp == App("x", FALSE, <<>>)
StaleApp == App("a", FALSE, <<>>)

\* the app objects a caller can pass: the ones the hook returns
DisplayApps == Range(allMinApps) \cup {OrphanApp}

Ids(apps) == {apps[i].id : i \in 1 .. Len(apps)}

isVisibleForRegion_MissingShown(app, region) ==
  IF region = "CN" THEN TRUE
  ELSE IF ~app.defined THEN TRUE
  ELSE \E i \in 1 .. Len(app.supportedRegions) : app.supportedRegions[i] = "Global"

isVisibleForRegion(app, region) ==
  IF region = "CN" THEN TRUE
  ELSE IF ~app.defined \/ Len(app.supportedRegions) = 0 THEN FALSE
  ELSE \E i \in 1 .. Len(app.supportedRegions) : app.supportedRegions[i] = "Global"

filterByRegion(apps, region) ==
  SelectSeq(apps, LAMBDA app : isVisibleForRegion(app, region))

getRegionHiddenApps(region) ==
  SelectSeq(allMinApps, LAMBDA app : ~isVisibleForRegion(app, region))

\* allMinApps.find((item) => item.id === app.id) || app
FindTemplate(app) ==
  IF \E i \in 1 .. Len(allMinApps) : allMinApps[i].id = app.id
  THEN allMinApps[CHOOSE i \in 1 .. Len(allMinApps) :
                    /\ allMinApps[i].id = app.id
                    /\ \A k \in 1 .. i - 1 : allMinApps[k].id # app.id]
  ELSE app

mapApps(apps) == [i \in 1 .. Len(apps) |-> FindTemplate(apps[i])]

getAllApps(apps, disabledApps) ==
  LET mappedApps == mapApps(apps)
      existingIds == Ids(mappedApps)
      disabledIds == Ids(disabledApps)
      missingApps == SelectSeq(allMinApps,
                       LAMBDA app : app.id \notin existingIds /\ app.id \notin disabledIds)
  IN mappedApps \o missingApps

effectiveRegion ==
  IF minAppRegionSetting = "auto"
  THEN IF detectedRegion = Null THEN "CN" ELSE detectedRegion
  ELSE minAppRegionSetting

\* READ: what the hook returns
minapps ==
  LET allApps == getAllApps(enabled, disabled)
      disabledIds == Ids(disabled)
      withoutDisabled == SelectSeq(allApps, LAMBDA app : app.id \notin disabledIds)
  IN filterByRegion(withoutDisabled, effectiveRegion)

disabledApps == filterByRegion(mapApps(disabled), effectiveRegion)

pinnedApps_Filtered == filterByRegion(mapApps(pinned), effectiveRegion)

\* pinned apps are not filtered
pinnedApps == mapApps(pinned)

getHiddenApps(region) == Ids(getRegionHiddenApps(region))

\* the lists a caller can pass: app objects without repetition
RECURSIVE ListsUpTo(_)
ListsUpTo(n) ==
  IF n = 0 THEN {<<>>}
  ELSE LET shorter == ListsUpTo(n - 1) IN
       shorter \cup {Append(l, app) : l \in {k \in shorter : Len(k) = n - 1},
                                      app \in DisplayApps}

CallerLists == {l \in ListsUpTo(MaxListLen) : Cardinality(Ids(l)) = Len(l)}

\* WRITE
updateMinapps(visibleApps) ==
  /\ LET disabledIds == Ids(disabled)
         withoutDisabled == SelectSeq(visibleApps, LAMBDA app : app.id \notin disabledIds)
         hiddenIds == getHiddenApps(effectiveRegion)
         preservedHidden == SelectSeq(enabled,
                              LAMBDA app : app.id \in hiddenIds /\ app.id \notin disabledIds)
         visibleIds == Ids(withoutDisabled)
         toAppend == SelectSeq(preservedHidden, LAMBDA app : app.id \notin visibleIds)
         merged == withoutDisabled \o toAppend
         existingIds == Ids(merged)
         missingApps == SelectSeq(allMinApps,
                          LAMBDA app : app.id \notin existingIds /\ app.id \notin disabledIds)
     IN enabled' = merged \o missingApps
  /\ UNCHANGED <<disabled, pinned, minAppRegionSetting, detectedRegion,
                 regionDetectionPromise, ipcCalls, hook>>

updateDisabledMinapps(visibleDisabledApps) ==
  /\ LET hiddenIds == getHiddenApps(effectiveRegion)
         preservedHidden == SelectSeq(disabled, LAMBDA app : app.id \in hiddenIds)
         visibleIds == Ids(visibleDisabledApps)
         toAppend == SelectSeq(preservedHidden, LAMBDA app : app.id \notin visibleIds)
     IN disabled' = visibleDisabledApps \o toAppend
  /\ UNCHANGED <<enabled, pinned, minAppRegionSetting, detectedRegion,
                 regionDetectionPromise, ipcCalls, hook>>

updatePinnedMinapps(visiblePinnedApps) ==
  /\ LET hiddenIds == getHiddenApps(effectiveRegion)
         preservedHidden == SelectSeq(pinned, LAMBDA app : app.id \in hiddenIds)
         visibleIds == Ids(visiblePinnedApps)
         toAppend == SelectSeq(preservedHidden, LAMBDA app : app.id \notin visibleIds)
     IN pinned' = visiblePinnedApps \o toAppend
  /\ UNCHANGED <<enabled, disabled, minAppRegionSetting, detectedRegion,
                 regionDetectionPromise, ipcCalls, hook>>

\* the user changes settings.minAppRegion
SetMinAppRegion(v) ==
  /\ v # minAppRegionSetting
  /\ minAppRegionSetting' = v
  /\ UNCHANGED <<enabled, disabled, pinned, detectedRegion,
                 regionDetectionPromise, ipcCalls, hook>>

\* String.toUpperCase on the country codes of the model
Countries == {"CN", "cn", "US"}

toUpperCase(c) == IF c = "cn" THEN "CN" ELSE c

IdleHook == [pc |-> "idle", hasInitiatedDetection |-> FALSE]

ReusesPromise_Never(promise) == FALSE

\* detectUserRegion: if (regionDetectionPromise) return regionDetectionPromise
ReusesPromise(promise) == promise # Null

\* the effect of a hook instance runs and starts the detection
InitRegion(h) ==
  /\ hook[h].pc = "idle"
  /\ ~(minAppRegionSetting # "auto" \/ detectedRegion # Null \/ hook[h].hasInitiatedDetection)
  /\ hook' = [hook EXCEPT ![h].pc = "awaiting", ![h].hasInitiatedDetection = TRUE]
  /\ IF ReusesPromise(regionDetectionPromise)
     THEN UNCHANGED <<regionDetectionPromise, ipcCalls>>
     ELSE /\ regionDetectionPromise' = "pending"
          /\ ipcCalls' = ipcCalls + 1
  /\ UNCHANGED <<enabled, disabled, pinned, minAppRegionSetting, detectedRegion>>

\* detectUserRegion, first version: what the promise resolves to when
\* getIpCountry answers country (ok) or throws (~ok)
detectUserRegion(ok, country) ==
  IF ~ok THEN "CN"
  ELSE IF toUpperCase(country) = "CN" THEN "CN" ELSE "Global"

\* window.api.getIpCountry answers (or throws): the shared promise resolves
IpCountry(ok, country) ==
  /\ regionDetectionPromise = "pending"
  /\ regionDetectionPromise' = detectUserRegion(ok, country)
  /\ UNCHANGED <<enabled, disabled, pinned, minAppRegionSetting, detectedRegion,
                 ipcCalls, hook>>

\* a waiting hook instance gets the region and dispatches setDetectedRegion
Detected(h) ==
  /\ hook[h].pc = "awaiting"
  /\ regionDetectionPromise \in Regions
  /\ hook' = [hook EXCEPT ![h].pc = "idle"]
  /\ detectedRegion' = regionDetectionPromise
  /\ UNCHANGED <<enabled, disabled, pinned, minAppRegionSetting,
                 regionDetectionPromise, ipcCalls>>

\* a component using the hook is unmounted and mounted again: a new instance
Remount(h) ==
  /\ hook[h].pc = "idle"
  /\ hook[h].hasInitiatedDetection
  /\ hook' = [hook EXCEPT ![h] = IdleHook]
  /\ UNCHANGED <<enabled, disabled, pinned, minAppRegionSetting, detectedRegion,
                 regionDetectionPromise, ipcCalls>>

NextApps ==
  \/ \E l \in CallerLists : updateMinapps(l) /\ UNCHANGED <<svcVars, flowVars, uiVars>>
  \/ \E l \in CallerLists : updateDisabledMinapps(l) /\ UNCHANGED <<svcVars, flowVars, uiVars>>
  \/ \E l \in CallerLists : updatePinnedMinapps(l) /\ UNCHANGED <<svcVars, flowVars, uiVars>>
  \/ \E v \in Regions \cup {"auto"} : SetMinAppRegion(v) /\ UNCHANGED <<svcVars, flowVars, uiVars>>

NextRegion ==
  \/ \E v \in Regions \cup {"auto"} : SetMinAppRegion(v) /\ UNCHANGED <<svcVars, flowVars, uiVars>>
  \/ \E h \in Hooks : InitRegion(h) /\ UNCHANGED <<svcVars, flowVars, uiVars>>
  \/ \E ok \in BOOLEAN, c \in Countries : IpCountry(ok, c) /\ UNCHANGED <<svcVars, flowVars, uiVars>>
  \/ \E h \in Hooks : Detected(h) /\ UNCHANGED <<svcVars, flowVars, uiVars>>
  \/ \E h \in Hooks : Remount(h) /\ UNCHANGED <<svcVars, flowVars, uiVars>>

\* the persisted lists hold a stale copy of a template app and an app the
\* template list no longer has
ListsInit ==
  /\ enabled = <<StaleApp, allMinApps[2], OrphanApp>>
  /\ disabled = <<>>
  /\ pinned = <<>>
  /\ minAppRegionSetting = "auto"

\* nothing detected yet
RegionInit ==
  /\ detectedRegion = Null
  /\ regionDetectionPromise = Null
  /\ ipcCalls = 0
  /\ hook = [h \in Hooks |-> IdleHook]

\* the detection has not run, or has ended with either region
RegionSettled ==
  /\ detectedRegion \in Regions \cup {Null}
  /\ regionDetectionPromise = detectedRegion
  /\ ipcCalls = IF detectedRegion = Null THEN 0 ELSE 1
  /\ hook = [h \in Hooks |-> [IdleHook EXCEPT !.hasInitiatedDetection = detectedRegion # Null]]

AppsInit == ListsInit /\ RegionInit

(***************************************************************************)
(* useMinapps, second version: no shared promise, the region is hook state *)
(***************************************************************************)
\* hook instances of the second version mounted at once
NumHooks2 == 2

\* getIpCountry requests one instance has in flight
MaxInFlight == 2

Hooks2 == 1 .. NumHooks2

\* detectUserRegion, second version
detectUserRegionV2(ok, country) ==
  IF ~ok THEN "Global"
  ELSE IF toUpperCase(country) = "CN" THEN "CN" ELSE "Global"

\* seen: the minAppRegionSetting the effect last ran for (Null before the
\* mount); lookup: how the detection that set effectiveRegion ended
IdleHook2 ==
  [seen |-> Null, inflight |-> 0, effectiveRegion |-> "Global", lookup |-> "none"]

\* the effect runs, on mount and when minAppRegionSetting has changed
V2Effect(h) ==
  /\ hook2[h].seen # minAppRegionSetting
  /\ IF minAppRegionSetting = "auto"
     THEN /\ hook2[h].inflight < MaxInFlight
          /\ hook2' = [hook2 EXCEPT ![h].seen = minAppRegionSetting,
                                    ![h].inflight = @ + 1]
     ELSE hook2' = [hook2 EXCEPT ![h].seen = minAppRegionSetting,
                                 ![h].effectiveRegion = minAppRegionSetting,
                                 ![h].lookup = "none"]
  /\ UNCHANGED <<appVars, panel, tool>>

\* getIpCountry answers or throws: setEffectiveRegion(detected)
V2IpCountry(h, ok, country) ==
  /\ hook2[h].inflight > 0
  /\ hook2' = [hook2 EXCEPT ![h].inflight = @ - 1,
                            ![h].effectiveRegion = detectUserRegionV2(ok, country),
                            ![h].lookup = IF ok THEN "ok" ELSE "failed"]
  /\ UNCHANGED <<appVars, panel, tool>>

NextRegion2 ==
  \/ \E v \in Regions \cup {"auto"} : SetMinAppRegion(v) /\ UNCHANGED <<svcVars, flowVars, uiVars>>
  \/ \E h \in Hooks2 : V2Effect(h) /\ UNCHANGED <<svcVars, flowVars>>
  \/ \E h \in Hooks2, ok \in BOOLEAN, c \in Countries :
       V2IpCountry(h, ok, c) /\ UNCHANGED <<svcVars, flowVars>>

(***************************************************************************)
(* CherryINOAuth: the settings panel of the provider                       *)
(***************************************************************************)
\* fetchUser, fetchData: getUserInfo / fetchData requests in flight;
\* lastLogout: how the last handleLogout ended, until the next login
IdlePanel ==
  [apiKey |-> "", userInfo |-> Null, balanceInfo |-> Null, usageInfo |-> Null,
   isLoggingOut |-> FALSE, isLoadingData |-> FALSE, pc |-> "idle",
   fetchUser |-> 0, fetchData |-> 0, lastLogout |-> "none"]

\* !isEmpty(provider.apiKey)
hasApiKey(p) == p.apiKey # ""

\* the effect on [hasApiKey]: fetch when logged in, clear when not
PanelEffect(before, p) ==
  IF hasApiKey(before) = hasApiKey(p) THEN p
  ELSE IF hasApiKey(p)
  THEN [p EXCEPT !.fetchUser = @ + 1, !.fetchData = @ + 1, !.isLoadingData = TRUE]
  ELSE [p EXCEPT !.userInfo = Null, !.balanceInfo = Null, !.usageInfo = Null]

\* the panel mounted with a stored key
MountedPanel == PanelEffect(IdlePanel, [IdlePanel EXCEPT !.apiKey = "key1"])

\* handleOAuthLogin's setKey: updateProvider({ apiKey: apiKeys })
PanelSetKey(k) ==
  /\ panel.fetchUser < MaxInFlight
  /\ panel.fetchData < MaxInFlight
  /\ panel' = PanelEffect(panel, [panel EXCEPT !.apiKey = k, !.lastLogout = "none"])
  /\ UNCHANGED <<hook2, tool>>

\* getUserInfo settles
UserInfoSettled(ok) ==
  /\ panel.fetchUser > 0
  /\ panel' = [panel EXCEPT !.fetchUser = @ - 1,
                            !.userInfo = IF ok THEN "info" ELSE Null]
  /\ UNCHANGED <<hook2, tool>>

\* fetchData: Promise.all of getBalance and getUsage settles
FetchDataSettled(ok) ==
  /\ panel.fetchData > 0
  /\ panel' = [panel EXCEPT !.fetchData = @ - 1,
                            !.balanceInfo = IF ok THEN "balance" ELSE Null,
                            !.usageInfo = IF ok THEN "usage" ELSE Null,
                            !.isLoadingData = FALSE]
  /\ UNCHANGED <<hook2, tool>>

\* handleLogout up to its await
HandleLogout ==
  /\ panel.pc = "idle"
  /\ panel' = [panel EXCEPT !.pc = "awaiting", !.isLoggingOut = TRUE]
  /\ UNCHANGED <<hook2, tool>>

AfterLogout_KeepOnError(p, outcome) ==
  IF outcome = "resolved"
  THEN [p EXCEPT !.apiKey = "", !.userInfo = Null, !.balanceInfo = Null,
                 !.usageInfo = Null, !.isLoggingOut = FALSE]
  ELSE [p EXCEPT !.userInfo = Null, !.balanceInfo = Null,
                 !.usageInfo = Null, !.isLoggingOut = FALSE]

\* handleLogout after window.api.cherryin.logout resolved or rejected: the try
\* and the catch block clear the same state, finally resets isLoggingOut
AfterLogout(p, outcome) ==
  [p EXCEPT !.apiKey = "", !.userInfo = Null, !.balanceInfo = Null,
            !.usageInfo = Null, !.isLoggingOut = FALSE]

LogoutSettled(outcome) ==
  /\ panel.pc = "awaiting"
  /\ panel' = PanelEffect(panel, [AfterLogout(panel, outcome) EXCEPT
                                    !.pc = "idle", !.lastLogout = outcome])
  /\ UNCHANGED <<hook2, tool>>

NextPanel ==
  \/ \E k \in {"key1", "key2"} : PanelSetKey(k) /\ UNCHANGED <<svcVars, flowVars, appVars>>
  \/ \E ok \in BOOLEAN : UserInfoSettled(ok) /\ UNCHANGED <<svcVars, flowVars, appVars>>
  \/ \E ok \in BOOLEAN : FetchDataSettled(ok) /\ UNCHANGED <<svcVars, flowVars, appVars>>
  \/ HandleLogout /\ UNCHANGED <<svcVars, flowVars, appVars>>
  \/ \E o \in {"resolved", "rejected"} : LogoutSettled(o) /\ UNCHANGED <<svcVars, flowVars, appVars>>

(***************************************************************************)
(* CodeToolsService helpers. A JS string is the sequence of its characters *)
(***************************************************************************)
LowerCase ==
  <<"a", "b", "c", "d", "e", "f", "g", "h", "i", "j", "k", "l", "m",
    "n", "o", "p", "q", "r", "s", "t", "u", "v", "w", "x", "y", "z">>

UpperCase ==
  <<"A", "B", "C", "D", "E", "F", "G", "H", "I", "J", "K", "L", "M",
    "N", "O", "P", "Q", "R", "S", "T", "U", "V", "W", "X", "Y", "Z">>

UpperChar(c) ==
  IF \E i \in 1 .. Len(LowerCase) : LowerCase[i] = c
  THEN UpperCase[CHOOSE i \in 1 .. Len(LowerCase) : LowerCase[i] = c]
  ELSE c

\* String.prototype.toUpperCase
StrToUpperCase(str) == [i \in 1 .. Len(str) |-> UpperChar(str[i])]

\* String.prototype.includes
StrIncludes(str, k) ==
  \E i \in 0 .. Len(str) - Len(k) : SubSeq(str, i + 1, i + Len(k)) = k

SENSITIVE_ENV_KEYS ==
  <<<<"A", "P", "I", "_", "K", "E", "Y">>,
    <<"A", "P", "I", "K", "E", "Y">>,
    <<"A", "U", "T", "H", "O", "R", "I", "Z", "A", "T", "I", "O", "N">>,
    <<"T", "O", "K", "E", "N">>,
    <<"S", "E", "C", "R", "E", "T">>,
    <<"P", "A", "S", "S", "W", "O", "R", "D">>>>

Redacted == "<redacted>"

ProtoKey == <<"_", "_", "p", "r", "o", "t", "o", "_", "_">>

\* a plain object is the sequence of its own entries, in Object.entries order
EmptyObject == <<>>

HasOwn(obj, key) == \E i \in 1 .. Len(obj) : obj[i].key = key

\* obj[key] = value, value a string, on an object made by {}: the key
\* '__proto__' reaches the setter of Object.prototype, which ignores a string
ObjSet(obj, key, value) ==
  IF key = ProtoKey THEN obj
  ELSE IF HasOwn(obj, key)
  THEN [i \in 1 .. Len(obj) |->
          IF obj[i].key = key THEN [key |-> key, value |-> value] ELSE obj[i]]
  ELSE Append(obj, [key |-> key, value |-> value])

\* SENSITIVE_ENV_KEYS.some((k) => key.toUpperCase().includes(k))
isSensitive(key) ==
  \E n \in 1 .. Len(SENSITIVE_ENV_KEYS) :
    StrIncludes(StrToUpperCase(key), SENSITIVE_ENV_KEYS[n])

RECURSIVE SanitizeFrom(_, _, _)
SanitizeFrom(env, i, sanitized) ==
  IF i > Len(env) THEN sanitized
  ELSE SanitizeFrom(env, i + 1,
         ObjSet(sanitized, env[i].key,
                IF isSensitive(env[i].key) THEN Redacted ELSE env[i].value))

sanitizeEnvForLogging(env) == SanitizeFrom(env, 1, EmptyObject)

\* entries of the environments tried
MaxEnv == 2

EnvKeys ==
  {<<"A", "P", "I", "_", "K", "E", "Y">>,
   <<"a", "p", "i", "_", "k", "e", "y">>,
   <<"A", "p", "i", "_", "K", "e", "y">>,
   <<"O", "P", "E", "N", "A", "I", "_", "A", "P", "I", "_", "K", "E", "Y">>,
   <<"a", "p", "i", "k", "e", "y">>,
   <<"A", "U", "T", "H", "O", "R", "I", "Z", "A", "T", "I", "O", "N">>,
   <<"G", "I", "T", "H", "U", "B", "_", "T", "O", "K", "E", "N">>,
   <<"t", "o", "k", "e", "n">>,
   <<"A", "W", "S", "_", "S", "E", "C", "R", "E", "T", "_", "A", "C", "C", "E", "S", "S", "_", "K", "E", "Y">>,
   <<"D", "A", "T", "A", "B", "A", "S", "E", "_", "P", "A", "S", "S", "W", "O", "R", "D">>,
   <<"A", "P", "I", "_", "K", "E", "Y", "_", "P", "A", "T", "H">>,
   <<"M", "O", "D", "E", "L", "_", "P", "A", "T", "H">>,
   <<"M", "O", "D", "E", "L">>,
   <<"A", "P", "I">>,
   <<"K", "E", "Y">>,
   <<"_", "_", "p", "r", "o", "t", "o", "_", "_">>}

EnvValues == {"value", Redacted}

RECURSIVE ObjectsUpTo(_, _, _)
ObjectsUpTo(n, keys, values) ==
  IF n = 0 THEN {<<>>}
  ELSE LET shorter == ObjectsUpTo(n - 1, keys, values) IN
       shorter \cup
         {Append(o, [key |-> k, value |-> v]) :
            o \in {x \in shorter : Len(x) = n - 1}, k \in keys, v \in values}

DistinctKeys(obj) == \A i, j \in 1 .. Len(obj) : obj[i].key = obj[j].key => i = j

Envs == {o \in ObjectsUpTo(MaxEnv, EnvKeys, EnvValues) : DistinctKeys(o)}

\* Object.keys
ObjectKeys(obj) == [i \in 1 .. Len(obj) |-> obj[i].key]

NON_FUNCTIONAL_KEYS == <<<<"$", "s", "c", "h", "e", "m", "a">>>>

getFunctionalKeys_Dollar(obj) ==
  SelectSeq(ObjectKeys(obj), LAMBDA key : key = <<>> \/ key[1] # "$")

getFunctionalKeys(obj) ==
  SelectSeq(ObjectKeys(obj), LAMBDA key : key \notin Range(NON_FUNCTIONAL_KEYS))

\* keys of the config objects tried
MaxKeys == 3

ConfigKeys ==
  {<<"$", "s", "c", "h", "e", "m", "a">>,
   <<"$", "i", "d">>,
   <<"s", "c", "h", "e", "m", "a">>,
   <<"p", "r", "o", "v", "i", "d", "e", "r">>,
   <<"m", "o", "d", "e", "l">>}

Configs == {o \in ObjectsUpTo(MaxKeys, ConfigKeys, {"value"}) : DistinctKeys(o)}

\* the character at position i, or "EOF"
At(str, i) == IF i >= 1 /\ i <= Len(str) THEN str[i] ELSE "EOF"

\* first position from i on that holds the two characters a b, or 0
FindPair(str, i, a, b) ==
  LET hits == {j \in i .. Len(str) - 1 : str[j] = a /\ str[j + 1] = b}
  IN IF hits = {} THEN 0 ELSE CHOOSE j \in hits : \A k \in hits : j <= k

\* position of the line terminator that ends the line of i, or Len + 1
LineEnd(str, i) ==
  LET ends == {j \in i .. Len(str) : str[j] = "\n"}
  IN IF ends = {} THEN Len(str) + 1 ELSE CHOOSE j \in ends : \A k \in ends : j <= k

WhiteSpace == {" ", "\n"}

\* content.replace(/\/\/.*$/gm, '')
RECURSIVE StripLineComments(_, _, _)
StripLineComments(str, i, out) ==
  IF i > Len(str) THEN out
  ELSE IF str[i] = "/" /\ At(str, i + 1) = "/"
  THEN StripLineComments(str, LineEnd(str, i), out)
  ELSE StripLineComments(str, i + 1, Append(out, str[i]))

\* cleaned.replace(/\/\*[\s\S]*?\*\//g, '')
RECURSIVE StripBlockComments(_, _, _)
StripBlockComments(str, i, out) ==
  IF i > Len(str) THEN out
  ELSE IF str[i] = "/" /\ At(str, i + 1) = "*" /\ FindPair(str, i + 2, "*", "/") # 0
  THEN StripBlockComments(str, FindPair(str, i + 2, "*", "/") + 2, out)
  ELSE StripBlockComments(str, i + 1, Append(out, str[i]))

\* first position from i on that holds no white space
RECURSIVE SkipSpace(_, _)
SkipSpace(str, i) ==
  IF At(str, i) \in WhiteSpace THEN SkipSpace(str, i + 1) ELSE i

\* cleaned.replace(/,(\s*[}\]])/g, '$1')
RECURSIVE StripTrailingCommas(_, _, _)
StripTrailingCommas(str, i, out) ==
  IF i > Len(str) THEN out
  ELSE IF str[i] = "," /\ At(str, SkipSpace(str, i + 1)) \in {"}", "]"}
  THEN StripTrailingCommas(str, i + 1, out)
  ELSE StripTrailingCommas(str, i + 1, Append(out, str[i]))

(* JSON values are kept in canonical text: no white space, an object's keys *)
(* in property order, each once.                                           *)
ParseFail == [ok |-> FALSE, val |-> <<>>, type |-> "none", next |-> 0]

Parsed(val, type, next) == [ok |-> TRUE, val |-> val, type |-> type, next |-> next]

\* white space between tokens; with comments when the grammar is JSONC
RECURSIVE SkipBlank(_, _, _)
SkipBlank(str, i, jsonc) ==
  IF At(str, i) \in WhiteSpace THEN SkipBlank(str, i + 1, jsonc)
  ELSE IF jsonc /\ At(str, i) = "/" /\ At(str, i + 1) = "/"
  THEN SkipBlank(str, LineEnd(str, i), jsonc)
  ELSE IF jsonc /\ At(str, i) = "/" /\ At(str, i + 1) = "*"
          /\ FindPair(str, i + 2, "*", "/") # 0
  THEN SkipBlank(str, FindPair(str, i + 2, "*", "/") + 2, jsonc)
  ELSE i

\* a string token at i: up to the closing quote, no line break inside
ParseString(str, i) ==
  LET closes == {j \in i + 1 .. Len(str) : str[j] = "\""}
      j == CHOOSE x \in closes : \A y \in closes : x <= y
  IN IF At(str, i) # "\"" \/ closes = {} THEN ParseFail
     ELSE IF \E k \in i + 1 .. j - 1 : str[k] = "\n" THEN ParseFail
     ELSE Parsed(SubSeq(str, i, j), "string", j + 1)

\* a number token at i: a run of the digit 1
ParseNumber(str, i) ==
  LET stops == {j \in i .. Len(str) + 1 : At(str, j) # "1"}
      j == CHOOSE x \in stops : \A y \in stops : x <= y
  IN IF At(str, i) # "1" THEN ParseFail
     ELSE Parsed(SubSeq(str, i, j - 1), "number", j)

\* a property is defined: a repeated key keeps its place and takes the value
DefineProperty(obj, key, value) ==
  IF HasOwn(obj, key)
  THEN [i \in 1 .. Len(obj) |->
          IF obj[i].key = key THEN [key |-> key, value |-> value] ELSE obj[i]]
  ELSE Append(obj, [key |-> key, value |-> value])

RECURSIVE JoinMembers(_, _)
JoinMembers(obj, i) ==
  IF i > Len(obj) THEN <<>>
  ELSE (IF i > 1 THEN <<",">> ELSE <<>>) \o obj[i].key \o <<":">> \o obj[i].value
         \o JoinMembers(obj, i + 1)

RECURSIVE JoinElements(_, _)
JoinElements(arr, i) ==
  IF i > Len(arr) THEN <<>>
  ELSE (IF i > 1 THEN <<",">> ELSE <<>>) \o arr[i] \o JoinElements(arr, i + 1)

RECURSIVE ParseValue(_, _, _)
RECURSIVE ParseMembers(_, _, _, _)
RECURSIVE ParseElements(_, _, _, _)

\* the members of an object from i on, after '{' or ','
ParseMembers(str, i, jsonc, obj) ==
  LET k == SkipBlank(str, i, jsonc)
      key == ParseString(str, k)
      colon == SkipBlank(str, key.next, jsonc)
      v == ParseValue(str, colon + 1, jsonc)
      after == SkipBlank(str, v.next, jsonc)
      defined == DefineProperty(obj, key.val, v.val)
  IN IF ~key.ok \/ At(str, colon) # ":" THEN ParseFail
     ELSE IF ~v.ok THEN ParseFail
     ELSE IF At(str, after) = "}"
     THEN Parsed(<<"{">> \o JoinMembers(defined, 1) \o <<"}">>, "object", after + 1)
     ELSE IF At(str, after) # "," THEN ParseFail
     ELSE IF jsonc /\ At(str, SkipBlank(str, after + 1, jsonc)) = "}"
     THEN Parsed(<<"{">> \o JoinMembers(defined, 1) \o <<"}">>, "object",
                 SkipBlank(str, after + 1, jsonc) + 1)
     ELSE ParseMembers(str, after + 1, jsonc, defined)

\* the elements of an array from i on, after '[' or ','
ParseElements(str, i, jsonc, arr) ==
  LET v == ParseValue(str, i, jsonc)
      after == SkipBlank(str, v.next, jsonc)
      added == Append(arr, v.val)
  IN IF ~v.ok THEN ParseFail
     ELSE IF At(str, after) = "]"
     THEN Parsed(<<"[">> \o JoinElements(added, 1) \o <<"]">>, "array", after + 1)
     ELSE IF At(str, after) # "," THEN ParseFail
     ELSE IF jsonc /\ At(str, SkipBlank(str, after + 1, jsonc)) = "]"
     THEN Parsed(<<"[">> \o JoinElements(added, 1) \o <<"]">>, "array",
                 SkipBlank(str, after + 1, jsonc) + 1)
     ELSE ParseElements(str, after + 1, jsonc, added)

ParseValue(str, i, jsonc) ==
  LET k == SkipBlank(str, i, jsonc)
      c == At(str, k)
  IN IF c = "{"
     THEN IF At(str, SkipBlank(str, k + 1, jsonc)) = "}"
          THEN Parsed(<<"{", "}">>, "object", SkipBlank(str, k + 1, jsonc) + 1)
          ELSE ParseMembers(str, k + 1, jsonc, <<>>)
     ELSE IF c = "["
     THEN IF At(str, SkipBlank(str, k + 1, jsonc)) = "]"
          THEN Parsed(<<"[", "]">>, "array", SkipBlank(str, k + 1, jsonc) + 1)
          ELSE ParseElements(str, k + 1, jsonc, <<>>)
     ELSE IF c = "\"" THEN ParseString(str, k)
     ELSE ParseNumber(str, k)

\* one value and nothing after it
ParseDocument(str, jsonc) ==
  LET v == ParseValue(str, 1, jsonc)
  IN IF v.ok /\ SkipBlank(str, v.next, jsonc) = Len(str) + 1 THEN v ELSE ParseFail

\* JSON.parse: a thrown SyntaxError is ~ok
JSONparse(str) == ParseDocument(str, FALSE)

\* parseJsoncParser: null when JSON.parse throws
parseJsoncParser(content) ==
  LET noLine == StripLineComments(content, 1, <<>>)
      noBlock == StripBlockComments(noLine, 1, <<>>)
      cleaned == StripTrailingCommas(noBlock, 1, <<>>)
  IN JSONparse(cleaned)

JsNull == <<"n", "u", "l", "l">>

\* result && typeof result === 'object' ? result : null
parseJsoncWithJsoncParser(content) ==
  LET result == parseJsoncParser(content)
  IN IF result.ok /\ result.type \in {"object", "array"} THEN result.val ELSE JsNull

\* pieces of the contents tried
MaxPieces == 4

Pieces ==
  {<<"{", "\"", "a", "\"", ":">>,
   <<"}">>,
   <<"[">>,
   <<"]">>,
   <<"\"", "a", "\"">>,
   <<"\"", "a", "/", "/", "a", "\"">>,
   <<"/", "/", "a">>,
   <<"/", "*", "a", "*", "/">>,
   <<",">>,
   <<"1">>,
   <<"\n">>}

RECURSIVE Contents(_)
Contents(n) ==
  IF n = 0 THEN {<<>>}
  ELSE LET shorter == Contents(n - 1) IN
       shorter \cup {c \o piece : c \in shorter, piece \in Pieces}

NoTool == [fn |-> "none", input |-> <<>>, output |-> <<>>]

\* a helper is applied to an input
Sanitize(env) ==
  /\ tool = NoTool
  /\ tool' = [fn |-> "sanitizeEnvForLogging", input |-> env,
              output |-> sanitizeEnvForLogging(env)]
  /\ UNCHANGED <<hook2, panel>>

FunctionalKeys(obj) ==
  /\ tool = NoTool
  /\ tool' = [fn |-> "getFunctionalKeys", input |-> obj,
              output |-> getFunctionalKeys(obj)]
  /\ UNCHANGED <<hook2, panel>>

\* the result is used; the next call starts afresh
ToolReturn ==
  /\ tool # NoTool
  /\ tool' = NoTool
  /\ UNCHANGED <<hook2, panel>>

ParseJsonc(content) ==
  /\ tool = NoTool
  /\ tool' = [fn |-> "parseJsoncWithJsoncParser", input |-> content,
              output |-> parseJsoncWithJsoncParser(content)]
  /\ UNCHANGED <<hook2, panel>>

NextTools ==
  \/ \E content \in Contents(MaxPieces) :
       ParseJsonc(content) /\ UNCHANGED <<svcVars, flowVars, appVars>>
  \/ ToolReturn /\ UNCHANGED <<svcVars, flowVars, appVars>>
  \/ \E env \in Envs : Sanitize(env) /\ UNCHANGED <<svcVars, flowVars, appVars>>
  \/ \E obj \in Configs : FunctionalKeys(obj) /\ UNCHANGED <<svcVars, flowVars, appVars>>

UiInit ==
  /\ hook2 = [h \in Hooks2 |-> IdleHook2]
  /\ panel = IdlePanel
  /\ tool = NoTool

(***************************************************************************)
(* The settings panel starts several authenticated requests together       *)
(***************************************************************************)
\* getUserInfo and fetchData's getBalance / getUsage run at once
PanelSlots == {"c1", "c2"}

\* the answers that matter to the refresh: 401 or a good 200; a new token
\* pair or a refusal
PanelResponses ==
  {[status |-> Unauthorized, body |-> "error"], [status |-> 200, body |-> "success_true"]}

PanelTokenResponses ==
  {[ok |-> TRUE, json |-> TRUE, access |-> "a2", refresh |-> "r2"],
   [ok |-> FALSE, json |-> FALSE, access |-> Null, refresh |-> Null]}

\* logged in: both token files are there
PanelSvcInit ==
  /\ tokenFile = <<encryptString("a1")>>
  /\ refreshTokenFile = <<encryptString("r1")>>
  /\ call = [s \in PanelSlots |-> IdleCall]
  /\ save = IdleSave
  /\ lo = IdleLogout
  /\ expect = "a1"
  /\ overlapped = FALSE

NextPanelSvc ==
  \/ \E s \in PanelSlots, m \in Methods : Call(s, m) /\ UNCHANGED <<flowVars, appVars, uiVars>>
  \/ \E s \in PanelSlots, resp \in PanelResponses :
       Request1(s, resp) /\ UNCHANGED <<flowVars, appVars, uiVars>>
  \/ \E s \in PanelSlots : RefreshRead(s) /\ UNCHANGED <<flowVars, appVars, uiVars>>
  \/ \E s \in PanelSlots, tr \in PanelTokenResponses :
       RefreshFetch(s, tr) /\ UNCHANGED <<flowVars, appVars, uiVars>>
  \/ \E s \in PanelSlots : RefreshSaveAccess(s, TRUE) /\ UNCHANGED <<flowVars, appVars, uiVars>>
  \/ \E s \in PanelSlots : RefreshSaveRefresh(s, TRUE) /\ UNCHANGED <<flowVars, appVars, uiVars>>
  \/ \E s \in PanelSlots, resp \in PanelResponses :
       Request2(s, resp) /\ UNCHANGED <<flowVars, appVars, uiVars>>

(***************************************************************************)
(* Specifications                                                          *)
(***************************************************************************)
SvcIdle ==
  /\ tokenFile = NoFile
  /\ refreshTokenFile = NoFile
  /\ call = [s \in Slots |-> IdleCall]
  /\ save = IdleSave
  /\ lo = IdleLogout
  /\ expect = Null
  /\ overlapped = FALSE

InitSvc == SvcInit /\ FlowInit /\ AppsInit /\ UiInit

SpecSvc == InitSvc /\ [][NextSvc]_vars

InitFlow == SvcIdle /\ FlowInit /\ AppsInit /\ UiInit

SpecFlow == InitFlow /\ [][NextFlow]_vars

\* oauthWithCherryIn under fair scheduling
SpecFlowLive == InitFlow /\ [][NextFlowLive]_vars /\ FlowFairness

\* the lists, read and written under every region the detection can leave
InitApps == SvcIdle /\ FlowInit /\ ListsInit /\ RegionSettled /\ UiInit

SpecApps == InitApps /\ [][NextApps]_vars

\* the region detection of the hook instances
InitRegionSpec == SvcIdle /\ FlowInit /\ AppsInit /\ UiInit

SpecRegion == InitRegionSpec /\ [][NextRegion]_vars

\* the settings panel, mounted with or without a stored key
InitPanel ==
  /\ SvcIdle /\ FlowInit /\ AppsInit
  /\ hook2 = [h \in Hooks2 |-> IdleHook2]
  /\ panel \in {IdlePanel, MountedPanel}
  /\ tool = NoTool

SpecPanel == InitPanel /\ [][NextPanel]_vars

\* concurrent authenticated requests of a logged-in panel
InitPanelSvc == PanelSvcInit /\ FlowInit /\ AppsInit /\ UiInit

SpecPanelSvc == InitPanelSvc /\ [][NextPanelSvc]_vars

\* the CodeToolsService helpers applied to the inputs tried
SpecTools == InitRegionSpec /\ [][NextTools]_vars

\* the region detection of the second version of the hook
SpecRegion2 == InitRegionSpec /\ [][NextRegion2]_vars

(***************************************************************************)
(* Properties of the token service                                         *)
(***************************************************************************)
\* C1: a call of authenticatedFetch sends at most two requests and starts at
\* most one refresh; a second request is sent only after a 401 on the first
\* and a refresh that returned a token, it carries that token, and whatever the
\* second response is (a 401 included) the call ends with it.
C1_RetryOnce ==
  \A s \in DOMAIN call :
    LET c == call[s] IN
      /\ c.nReq <= 2
      /\ c.nRefresh <= 1
      /\ c.pc = "req2" \/ c.nReq = 2 =>
           /\ c.first.status = Unauthorized
           /\ c.nRefresh = 1
           /\ Truthy(c.ret)
      /\ c.nReq = 2 =>
           /\ c.tok2 = c.ret
           /\ c.pc \in {"returned", "threw"}
      /\ c.nRefresh = 1 => c.first.status = Unauthorized

C1_Witness ==
  \E s \in DOMAIN call :
    /\ call[s].nReq = 2
    /\ call[s].last.status = Unauthorized
    /\ call[s].tok2 # call[s].token

\* C2: a method returns a value only when the final response is OK, matches
\* the schema and has success = true; otherwise it throws a
\* CherryINOAuthServiceError; with no stored token it throws before any request.
C2_ReturnOrThrow ==
  \A s \in DOMAIN call :
    LET c == call[s]
        good == c.last # NetErr /\ ResponseOk(c.last.status) /\ c.last.body = "success_true"
    IN
      /\ c.pc = "returned" => good /\ c.err = NoError
      /\ c.pc = "threw" => ~good /\ c.err.name = ServiceError
      /\ c.pc \in {"returned", "threw"} /\ ~Truthy(c.token) =>
           c.pc = "threw" /\ c.nReq = 0 /\ c.nRefresh = 0
      /\ c.nReq > 0 => Truthy(c.token)

C2_Witness ==
  \E s \in DOMAIN call :
    /\ call[s].pc = "threw"
    /\ call[s].nRefresh = 1
    /\ call[s].nReq = 1
    /\ call[s].last.status = Unauthorized

\* C6: when no saveToken or logout is running and the completed ones neither
\* overlapped nor failed, getToken returns the access token of the most recent
\* saveToken, or null if a logout completed after it (or nothing was saved),
\* and hasToken is true exactly when a token is returned.
C6_RoundTrip ==
  Quiescent /\ expect # Unknown =>
    /\ getToken = expect
    /\ hasToken = (expect # Null)

C6_Witness ==
  /\ Quiescent
  /\ expect = "a1"
  /\ lo.pc = "returned"
  /\ save.pc = "returned"

LogoutReturns == lo.pc # "returned" /\ lo'.pc = "returned"

\* C7: whatever the revocation did (succeeded, error status, threw, skipped),
\* logout goes on to delete the files, and when it returns, no other
\* token-writing call having overlapped it, no token file is left: hasToken is
\* false, access and refresh token read as null.
C7_LogoutDeletes ==
  [][/\ lo.pc = "rev" => lo'.pc \in {"rev", "u1"}
     /\ LogoutReturns /\ ~overlapped =>
          /\ lo'.revoke \in RevokeOutcomes \cup {"skipped"}
          /\ ~hasToken'
          /\ getToken' = Null
          /\ getRefreshToken' = Null]_vars

C7_Witness ==
  /\ lo.pc = "returned"
  /\ lo.revoke = "threw"
  /\ expect = Null
  /\ Quiescent

(***************************************************************************)
(* Properties of oauthWithCherryIn                                         *)
(***************************************************************************)
\* C3: a call exchanges a code only for a callback whose state was in
\* pendingOAuthFlows and is the state the call generated, and the request
\* carries the code_verifier stored under that state.
C3_ExchangeOnlyOwnState ==
  \A f \in Flows :
    /\ flow[f].pc \in {"exchange", "save", "apikeys"} => flow[f].nExch > 0
    /\ flow[f].nExch > 0 =>
         /\ flow[f].exch.wasPending
         /\ flow[f].exch.state = StateOf(f)
         /\ flow[f].exch.verifier = VerifierOf(f)

C3_Witness ==
  \E f, g \in Flows :
    /\ f # g
    /\ flow[f].pc = "exchange"
    /\ flow[f].nExch = 1
    /\ g \in Range(listeners)
    /\ StateOf(g) \in DOMAIN pendingOAuthFlows

\* C4 (as claimed): no listener acts on a callback that carries another state
\* than its own call's: such a callback neither settles the call's promise nor
\* removes its listener nor deletes its entry.
C4_ForeignIgnored ==
  \A f \in Flows : flow[f].by # "foreign"

\* C5: the promise is pending exactly while the timer is armed; once the timer
\* has fired the promise is rejected with 'OAuth flow timed out', the listener
\* is removed and the entry of the call's state is deleted.
C5_Timeout ==
  \A f \in Flows :
    /\ flow[f].timer <=> flow[f].promise = "pending"
    /\ flow[f].timer => f \in Range(listeners)
    /\ flow[f].result = "OAuth flow timed out" =>
         /\ flow[f].promise = "rejected"
         /\ f \notin Range(listeners)
         /\ ~flow[f].timer
         /\ StateOf(f) \notin DOMAIN pendingOAuthFlows
         /\ NowMs >= FlowTimeoutMs

C5_Witness ==
  \E f \in Flows :
    /\ flow[f].result = "OAuth flow timed out"
    /\ flow[f].nExch = 0
    /\ \E g \in Flows : g # f /\ flow[g].promise = "pending"

(***************************************************************************)
(* Properties of useMinapps                                                *)
(***************************************************************************)
AppIds == {app.id : app \in DisplayApps}

\* the stored list has the app, and the app as the hook shows it is not
\* visible in the effective region
HiddenStored(list, id) ==
  \E i \in 1 .. Len(list) :
    /\ list[i].id = id
    /\ ~isVisibleForRegion(FindTemplate(list[i]), effectiveRegion)

\* C8 (as claimed): no step drops a region-hidden app from the stored list it
\* was in: enabled (unless disabled), disabled, pinned.
C8_WritesPreserveHidden ==
  [][\A id \in AppIds :
       /\ HiddenStored(enabled, id) /\ id \notin Ids(disabled) => id \in Ids(enabled')
       /\ HiddenStored(disabled, id) => id \in Ids(disabled')
       /\ HiddenStored(pinned, id) => id \in Ids(pinned')]_vars

\* C9: window.api.getIpCountry is requested at most once; every hook instance
\* that asks waits for that one promise, and the region dispatched is the
\* region it resolved to.
C9_DetectOnce ==
  /\ ipcCalls <= 1
  /\ regionDetectionPromise # Null <=> ipcCalls = 1
  /\ \A h \in DOMAIN hook : hook[h].pc = "awaiting" => regionDetectionPromise # Null
  /\ detectedRegion # Null => detectedRegion = regionDetectionPromise

C9_Witness ==
  /\ ipcCalls = 1
  /\ detectedRegion = "Global"
  /\ \E h, k \in DOMAIN hook :
       /\ h # k
       /\ hook[h].hasInitiatedDetection
       /\ hook[k].hasInitiatedDetection

\* the rule in words: CN sees everything, Global sees the apps whose
\* supportedRegions is there, non-empty and has 'Global'
VisibleRule(app, region) ==
  \/ region = "CN"
  \/ /\ region = "Global"
     /\ app.defined
     /\ app.supportedRegions # <<>>
     /\ "Global" \in Range(app.supportedRegions)

AppShapes ==
  {App(id, TRUE, r) : id \in AppIds,
                      r \in {<<>>, <<"CN">>, <<"Global">>, <<"CN", "Global">>}}
    \cup {App(id, FALSE, <<>>) : id \in AppIds}

\* the k-th element of the positions kept
Kth(keep, k) == CHOOSE i \in keep : Cardinality({j \in keep : j < i}) = k - 1

\* C10: isVisibleForRegion is the rule, and minapps is getAllApps(enabled,
\* disabled) with exactly the disabled and the invisible apps left out, order
\* kept.
C10_VisibleMinapps ==
  /\ \A app \in AppShapes, r \in Regions :
       isVisibleForRegion(app, r) = VisibleRule(app, r)
  /\ LET all == getAllApps(enabled, disabled)
         keep == {i \in 1 .. Len(all) :
                    /\ all[i].id \notin Ids(disabled)
                    /\ VisibleRule(all[i], effectiveRegion)}
     IN /\ Len(minapps) = Cardinality(keep)
        /\ \A k \in 1 .. Len(minapps) : minapps[k] = all[Kth(keep, k)]

C10_Witness ==
  /\ effectiveRegion = "Global"
  /\ disabled # <<>>
  /\ Len(minapps) >= 1
  /\ Len(minapps) < Len(SelectSeq(getAllApps(enabled, disabled),
                                  LAMBDA app : app.id \notin Ids(disabled)))

\* C11: the pinned list returned has every stored pinned app, in any region,
\* while the minapps and disabled lists returned hold only apps visible in
\* the effective region.
C11_PinnedAlwaysVisible ==
  /\ Len(pinnedApps) = Len(pinned)
  /\ \A i \in 1 .. Len(pinned) : pinnedApps[i].id = pinned[i].id
  /\ \A i \in 1 .. Len(minapps) : VisibleRule(minapps[i], effectiveRegion)
  /\ \A i \in 1 .. Len(disabledApps) : VisibleRule(disabledApps[i], effectiveRegion)

C11_Witness ==
  /\ effectiveRegion = "Global"
  /\ \E i \in 1 .. Len(pinnedApps) : ~VisibleRule(pinnedApps[i], effectiveRegion)
  /\ Len(disabledApps) < Len(disabled)

\* C12 (as claimed): when getIpCountry fails, either version of
\* detectUserRegion gives a region in which region filtering hides no app.
C12_FallbackShowsAll ==
  /\ \A c \in Countries :
       filterByRegion(allMinApps, detectUserRegion(FALSE, c)) = allMinApps
  /\ \A h \in Hooks2 :
       hook2[h].lookup = "failed" =>
         filterByRegion(allMinApps, hook2[h].effectiveRegion) = allMinApps

(***************************************************************************)
(* Properties of the settings panel                                        *)
(***************************************************************************)
\* C13: the step that ends handleLogout, after logout resolved or rejected,
\* leaves apiKey '', userInfo and balanceInfo null and isLoggingOut false.
C13_LogoutClearsKey ==
  [][panel.pc = "awaiting" /\ panel'.pc = "idle" =>
       /\ panel'.apiKey = ""
       /\ panel'.userInfo = Null
       /\ panel'.balanceInfo = Null
       /\ ~panel'.isLoggingOut]_vars

C13_Witness ==
  /\ panel.lastLogout = "rejected"
  /\ panel.pc = "idle"
  /\ panel.apiKey = ""
  /\ panel.fetchUser > 0

(***************************************************************************)
(* Properties of the CodeToolsService helpers                              *)
(***************************************************************************)
\* position of key among the own keys of obj
KeyIndex(obj, key) == CHOOSE i \in 1 .. Len(obj) : obj[i].key = key

\* the upper-cased key has word at some offset
ContainsWord(key, word) ==
  \E off \in 0 .. Len(key) - Len(word) :
    \A j \in 1 .. Len(word) : UpperChar(key[off + j]) = word[j]

\* C14 (as claimed): the result of sanitizeEnvForLogging has exactly the keys
\* of its input; a value is '<redacted>' when the upper-cased key contains a
\* sensitive word, and the input's value otherwise.
C14_SanitizeEnv ==
  tool.fn = "sanitizeEnvForLogging" =>
    /\ Range(ObjectKeys(tool.output)) = Range(ObjectKeys(tool.input))
    /\ \A i \in 1 .. Len(tool.output) :
         LET key == tool.output[i].key IN
         tool.output[i].value =
           IF \E w \in Range(SENSITIVE_ENV_KEYS) : ContainsWord(key, w)
           THEN Redacted
           ELSE tool.input[KeyIndex(tool.input, key)].value

\* C16: getFunctionalKeys gives the keys of the object other than '$schema',
\* each once, in the order of the object.
C16_FunctionalKeys ==
  tool.fn = "getFunctionalKeys" =>
    LET keys == ObjectKeys(tool.input)
        out == tool.output
    IN /\ Range(out) = Range(keys) \ {NON_FUNCTIONAL_KEYS[1]}
       /\ Len(out) = Cardinality(Range(out))
       /\ \A i, j \in 1 .. Len(out) :
            i < j => KeyIndex(tool.input, out[i]) < KeyIndex(tool.input, out[j])
       /\ (keys = <<>> => out = <<>>)

C16_Witness ==
  /\ tool.fn = "getFunctionalKeys"
  /\ Len(tool.input) = 3
  /\ tool.input[2].key = NON_FUNCTIONAL_KEYS[1]
  /\ tool.input[1].key[1] = "$"
  /\ Len(tool.output) = 2

\* C15 (as claimed): parseJsoncWithJsoncParser gives the value JSON.parse
\* gives for a standard JSON object or array, the value of the document for
\* JSON with comments and trailing commas, null for content that is not
\* valid, and never a primitive.
C15_ParseJsonc ==
  tool.fn = "parseJsoncWithJsoncParser" =>
    LET strict == JSONparse(tool.input)
        lenient == ParseDocument(tool.input, TRUE)
    IN /\ strict.ok /\ strict.type \in {"object", "array"} => tool.output = strict.val
       /\ lenient.ok /\ lenient.type \in {"object", "array"} => tool.output = lenient.val
       /\ ~lenient.ok => tool.output = JsNull
       /\ tool.output = JsNull \/ tool.output[1] \in {"{", "["}

(***************************************************************************)
(* Properties of concurrent use of the service                             *)
(***************************************************************************)
\* C17 (as claimed): requests that run together and get 401 do not each send
\* the stored refresh token: no two calls have a refresh request in flight
\* with the same refresh token.
C17_RefreshOnce ==
  \A s, t \in DOMAIN call :
    s # t /\ call[s].pc = "rfetch" /\ call[t].pc = "rfetch" =>
      call[s].rtok # call[t].rtok

\* C18 (as claimed): after a logout that has completed and deleted the files,
\* and with no saveToken of a new login begun since, no step stores a token
\* again.
C18_NoWriteBackAfterLogout ==
  [][/\ lo.pc = "returned"
     /\ expect = Null
     /\ save.pc \in Finished
     /\ tokenFile = NoFile
     /\ refreshTokenFile = NoFile
     => /\ tokenFile' = NoFile
        /\ refreshTokenFile' = NoFile]_vars

(***************************************************************************)
(* Further properties of oauthWithCherryIn                                 *)
(***************************************************************************)
\* C19 (as claimed): setKey is called at most once per call, and only when
\* the promise resolves, with the key the promise resolves to.
C19_SetKeyOnlyOnResolve ==
  \A f \in Flows :
    /\ flow[f].nSetKey <= 1
    /\ flow[f].nSetKey = 1 =>
         flow[f].promise = "resolved" /\ flow[f].result = flow[f].key

\* C20: a call sends at most one token-exchange request, also when a
\* callback with its state and a code comes again.
C20_OneExchange == \A f \in Flows : flow[f].nExch <= 1

C20_Witness == \E f \in Flows : flow[f].nExch = 1 /\ flow[f].dup

\* C22: a saveToken without a refresh token (undefined or empty), called over
\* IPC or by refreshAccessToken, ends after the access-token file: when the
\* write succeeds the file holds the new access token, and in either case the
\* refresh-token file is as it was. The next refresh sends what that file holds.
C22_SaveKeepsRefreshToken ==
  [][/\ (save.pc = "w1" /\ ~Truthy(save.refresh) /\ save' # save) =>
          /\ refreshTokenFile' = refreshTokenFile
          /\ save'.pc \in {"returned", "threw"}
          /\ save'.pc = "returned" => tokenFile' = <<encryptString(save.access)>>
          /\ save'.pc = "threw" => tokenFile' = tokenFile
     /\ \A s \in DOMAIN call :
          /\ (call[s].pc = "w1" /\ ~Truthy(call[s].newR) /\ call'[s] # call[s]) =>
               /\ refreshTokenFile' = refreshTokenFile
               /\ call'[s].pc # "w2"
               /\ call'[s].pc = "req2" => tokenFile' = <<encryptString(call[s].newA)>>
               /\ call'[s].pc # "req2" => tokenFile' = tokenFile
          /\ (call[s].pc = "rt" /\ call'[s].pc = "rfetch") =>
               refreshTokenFile = <<encryptString(call'[s].rtok)>>]_vars

\* a refresh was answered with a new access token and no refresh token, its
\* saveToken has returned, and the refresh token it sent is still the stored one
C22_Witness ==
  \E s \in DOMAIN call :
    /\ call[s].pc = "req2"
    /\ Truthy(call[s].kept)
    /\ tokenFile = <<encryptString(call[s].ret)>>
    /\ refreshTokenFile = <<encryptString(call[s].kept)>>

\* the promise of call f has been resolved or rejected
Settled(f) == flow[f].promise \in {"resolved", "rejected"}

\* the listener of call f is removed, its timer cleared and its state not pending
Cleaned(f) ==
  /\ f \notin Range(listeners)
  /\ ~flow[f].timer
  /\ flow[f].state \notin DOMAIN pendingOAuthFlows

\* C21: every oauthWithCherryIn promise is settled in the end, is settled only
\* once (a settled promise keeps its state and its value), and in every state
\* in which it is settled the listener of the call is removed, its timer is
\* cleared and pendingOAuthFlows has no entry for its state.
C21_SettlesOnceCleaned ==
  /\ [](\A f \in Flows : Settled(f) => Cleaned(f))
  /\ [][\A f \in Flows : Settled(f) =>
          /\ flow'[f].promise = flow[f].promise
          /\ flow'[f].result = flow[f].result]_vars
  /\ \A f \in Flows : (flow[f].promise = "pending") ~> Settled(f)

\* one call resolved with its keys, another was rejected by its timer
C21_Witness ==
  \E f, g \in Flows :
    /\ flow[f].promise = "resolved" /\ flow[f].result = "key1,key2"
    /\ flow[g].promise = "rejected" /\ flow[g].result = "OAuth flow timed out"
    /\ Cleaned(f) /\ Cleaned(g)

====
